---- MODULE Spec2Model ----
(***************************************************************************)
(* Model of src/app.py: the NAT-gateway lifecycle around a model pull      *)
(* (pull_model / pull_model_task and its EC2 helpers) and the ECS/ASG      *)
(* fleet endpoints (shutdown_ecs_service, stop_ecs_tasks).                 *)
(*                                                                         *)
(* Every boto3 / httpx call is one atomic step whose outcome (success,     *)
(* failure, returned value) is chosen by the environment.                  *)
(***************************************************************************)
EXTENDS Integers, Sequences, FiniteSets, TLC

\* ------------------------------------------------------------------ bounds
\* Number of pull_model requests in the single-run specification.
MaxRuns == 1
\* Number of pull_model requests in the concurrent specification.
MaxConcurrentRuns == 2
\* Longest task listing list_tasks returns in the fleet specification.
MaxTasks == 3

\* ------------------------------------------------------- program constants
\* for _ in range(40)
AvailabilityPolls == 40
\* for attempt in range(10)
PullRounds == 10

\* ------------------------------------------------------------------ values
None == "None"

\* NAT gateway ids: nat0 is a gateway that may exist before any run, natN is
\* the gateway run N creates.
NatId(n) == <<"nat-0", "nat-1", "nat-2", "nat-3", "nat-4">>[n + 1]

TargetKeys == <<"NatGatewayId", "GatewayId", "InstanceId", "NetworkInterfaceId">>

\* A default route as describe_route_tables reports it.  Other stands for the
\* target kinds the code never reads (TransitGatewayId, VpcPeeringConnectionId..).
NoTargets ==
    [NatGatewayId |-> None, GatewayId |-> None, InstanceId |-> None,
     NetworkInterfaceId |-> None, Other |-> None]

\* The route table's routes for 0.0.0.0/0: none, or one.
NoRoute == <<>>

\* original_route = None
NoSnapshot == <<>>

\* The route replace_route(<key>=<val>) leaves behind.  A route to an instance
\* is reported with the instance's network interface as well.
RouteOfTarget(key, val) ==
    IF key = "InstanceId"
    THEN [NoTargets EXCEPT !.InstanceId = val, !.NetworkInterfaceId = "eni-of-i1"]
    ELSE [NoTargets EXCEPT ![key] = val]

VARIABLES
    ollamaHost,       \* os.getenv("OLLAMA_HOST", "") is non-empty
    netCfg,           \* SUBNET_ID / ALLOCATION_ID / ROUTE_TABLE_ID are set
    cloudFaults,      \* environment: boto3 calls may raise
    gw,               \* cloud: state of every NAT gateway
    route,            \* cloud: the route table's 0.0.0.0/0 route, or NoRoute
    pc,               \* per run: position in pull_model / pull_model_task
    ack,              \* per run: what pull_model returned to the caller
    nat_gateway_id,   \* per run: local nat_gateway_id
    original_route,   \* per run: local original_route
    polls,            \* per run: iterations of the availability loop done
    attempt,          \* per run: pull rounds completed
    post_result,      \* per run: outcome of the round's POST /api/pull
    outcome,          \* per run: how the pull loop ended
    result,           \* per run: how the run ended
    hist,             \* per run: history of the calls the run issued
    calls,            \* per run: number of calls issued, per kind
    fop,              \* fleet: the endpoint being served
    fpc,              \* fleet: position in that endpoint's code
    fcfg,             \* fleet: which of CLUSTER_NAME, SERVICE_NAME,
                      \*        AUTOSCALING_GROUP_NAME are set
    listing,          \* fleet: what list_tasks returned
    stopIdx,          \* fleet: index of the next task of the for loop
    stopLog,          \* fleet: stop_task calls issued, with their outcome
    fcalls,           \* fleet: number of calls issued, per kind
    fhist,            \* fleet: outcome of the two update calls
    fresult,          \* fleet: what the endpoint returned
    taskStatus,       \* cloud: lastStatus of every task of the service
    fstatus           \* fleet: the body selfhost_status returned

runVars == <<pc, ack, nat_gateway_id, original_route, polls, attempt,
             post_result, outcome, result, hist, calls>>
cloudVars == <<gw, route>>
envVars == <<ollamaHost, netCfg, cloudFaults>>
fleetVars == <<fop, fpc, fcfg, listing, stopIdx, stopLog, fcalls, fhist, fresult,
               taskStatus, fstatus>>
vars == <<envVars, cloudVars, runVars, fleetVars>>

Runs == DOMAIN pc

\* ---------------------------------------------------------- pure functions

\* Mutant: the guard reads the egress configuration instead of OLLAMA_HOST.
ProvisioningEnabledByNetCfg == netCfg

\* if os.getenv("OLLAMA_HOST", ""):
ProvisioningEnabled == ollamaHost

\* get_current_default_route: the dict built from the 0.0.0.0/0 route, None
\* when the read raised or the table has no such route.
RouteSnapshot(readOk, rt) ==
    IF ~readOk \/ rt = NoRoute
    THEN NoSnapshot
    ELSE <<[NatGatewayId       |-> rt[1].NatGatewayId,
            GatewayId          |-> rt[1].GatewayId,
            InstanceId         |-> rt[1].InstanceId,
            NetworkInterfaceId |-> rt[1].NetworkInterfaceId]>>

\* restore_default_route: the first key of the list whose value is truthy
\* (for ... if original_route.get(key): ...; break), as <<key, value>>;
\* <<>> when no key is.
RECURSIVE FirstTarget(_, _)
FirstTarget(snap, i) ==
    IF i > Len(TargetKeys) THEN <<>>
    ELSE IF snap[TargetKeys[i]] # None THEN <<TargetKeys[i], snap[TargetKeys[i]]>>
    ELSE FirstTarget(snap, i + 1)

RestoreKwargs(snapshot) == FirstTarget(snapshot[1], 1)

\* Mutant: the test of line 174 inverted.
GatewayFoundInverted(id) == id = None

\* if nat_gateway_id: (line 174)
GatewayFound(id) == id # None

\* if nat_gateway_id: delete_nat_gateway(...) (line 220)
TeardownDeletes(id) == id # None

\* if original_route: restore_default_route(...) (line 224)
TeardownRestores(snapshot) == snapshot # NoSnapshot

\* Mutant: the status code of the inventory answer is not looked at.
ModelListedAnyStatus(res) == res.listed

\* resp_tags.status_code == 200 and any(m.get("name") == model_name ...)
ModelInInventory(res) == res.status = 200 /\ res.listed

\* Mutant: the run returns after the for-else warning, tearing down only
\* after a found model.
AfterLoopOnSuccessOnly(id, loopOutcome) ==
    IF ProvisioningEnabled /\ TeardownDeletes(id) /\ loopOutcome = "Success"
    THEN "delete" ELSE "done"

\* Where the run goes when the pull loop is over, whichever way it ended
\* (lines 218-220).
AfterLoop(id, loopOutcome) ==
    IF ProvisioningEnabled /\ TeardownDeletes(id) THEN "delete" ELSE "done"

\* if not nat_gateway_id: ... return   (lines 178-180)
AfterCreate(id) == IF id = None THEN "done" ELSE "wait"

\* Mutant: the for-else lacks its return and falls through to the attach.
AfterPollMissFallsThrough(n) == IF n = AvailabilityPolls THEN "attach" ELSE "wait"

\* Mutant: the availability loop has no cap.
AfterPollMissNoBound(n) == "wait"

\* The availability loop after n polls none of which reported the gateway
\* available: the next iteration, or the for-else's return (lines 183-190).
AfterPollMiss(n) == IF n = AvailabilityPolls THEN "done" ELSE "wait"

\* What GET /api/tags can answer; an exception is status 0.
TagsResults == [status : {0, 200, 500}, listed : BOOLEAN]

\* What POST /api/pull can answer.
PostResults == {"2xx", "non2xx", "exception"}

\* The outcomes of a boto3 call: it returns (TRUE) or raises (FALSE).
CallOutcomes == IF cloudFaults THEN BOOLEAN ELSE {TRUE}

\* ------------------------------------------------------------ initial state

NoCalls ==
    [describe_gw |-> 0, describe_rt |-> 0, create |-> 0, poll |-> 0,
     attach |-> 0, delete |-> 0, restore |-> 0, post |-> 0, tags |-> 0]

NoHist ==
    [discovered |-> None, snapshotTaken |-> FALSE, route0 |-> NoRoute,
     createOk |-> "none", sawAvailable |-> FALSE,
     attach |-> "none", attachArg |-> None,
     deleted |-> None, deleteOk |-> "none",
     restoreArg |-> <<"none">>, restoreOk |-> "none",
     pullEntered |-> FALSE, firstHit |-> 0, callsAtAck |-> 0]

\* The default routes the route table can hold before any run.
InitialRoutes(gw0) ==
    {NoRoute,
     <<RouteOfTarget("GatewayId", "igw-1")>>,
     <<RouteOfTarget("InstanceId", "i-1")>>,
     <<RouteOfTarget("NetworkInterfaceId", "eni-1")>>,
     <<RouteOfTarget("Other", "tgw-1")>>}
    \cup (IF gw0 = "available" THEN {<<RouteOfTarget("NatGatewayId", NatId(0))>>} ELSE {})

AllNames == [cluster |-> TRUE, service |-> TRUE, asg |-> TRUE]

Tasks == {<<"task-1", "task-2", "task-3", "task-4", "task-5">>[i] : i \in 1..MaxTasks}

\* The lastStatus values describe_tasks reports.
TaskStatuses == {"RUNNING", "PENDING", "STOPPED"}

\* selfhost_status has not answered.
NoStatus == [ready |-> FALSE, status |-> "none", task_arn |-> None]

NoFleetCalls == [asg |-> 0, service |-> 0, list |-> 0, stop |-> 0, describe |-> 0]

FleetIdle ==
    /\ fop = "none"
    /\ fpc = "idle"
    /\ fcfg = AllNames
    /\ listing = <<>>
    /\ stopIdx = 0
    /\ stopLog = <<>>
    /\ fcalls = NoFleetCalls
    /\ fhist = [asg |-> "none", service |-> "none"]
    /\ fresult = "none"
    /\ taskStatus = [t \in Tasks |-> "RUNNING"]
    /\ fstatus = NoStatus

InitRuns(n, faults) ==
    /\ cloudFaults = faults
    /\ ollamaHost \in BOOLEAN
    /\ netCfg \in BOOLEAN
    /\ \E gw0 \in {"absent", "available"} :
          /\ gw = [g \in {NatId(i) : i \in 0..n} |->
                      IF g = NatId(0) THEN gw0 ELSE "absent"]
          /\ route \in InitialRoutes(gw0)
    /\ pc = [r \in 1..n |-> "idle"]
    /\ ack = [r \in 1..n |-> "none"]
    /\ nat_gateway_id = [r \in 1..n |-> None]
    /\ original_route = [r \in 1..n |-> NoSnapshot]
    /\ polls = [r \in 1..n |-> 0]
    /\ attempt = [r \in 1..n |-> 0]
    /\ post_result = [r \in 1..n |-> "none"]
    /\ outcome = [r \in 1..n |-> "none"]
    /\ result = [r \in 1..n |-> "none"]
    /\ hist = [r \in 1..n |-> NoHist]
    /\ calls = [r \in 1..n |-> NoCalls]

Init == InitRuns(MaxRuns, TRUE) /\ FleetIdle

\* ---------------------------------------------------- pull_model (endpoint)

TotalCalls(r) ==
    calls[r].describe_gw + calls[r].describe_rt + calls[r].create + calls[r].poll
    + calls[r].attach + calls[r].delete + calls[r].restore + calls[r].post
    + calls[r].tags

\* Mutant: the endpoint answers only for a run that is over.
PullModelResponseAfterRun(r) == IF pc[r] = "done" THEN "pull_started" ELSE "none"

\* return {"status": "pull_started", "model": model_name}   (line 235)
PullModelResponse(r) == "pull_started"

\* background_tasks.add_task(run_async_task, model_name); return {...}
PullModel(r) ==
    /\ pc[r] = "idle"
    /\ pc' = [pc EXCEPT ![r] = "queued"]
    /\ ack' = [ack EXCEPT ![r] = PullModelResponse(r)]
    /\ hist' = [hist EXCEPT ![r].callsAtAck = TotalCalls(r)]
    /\ UNCHANGED <<envVars, cloudVars, fleetVars, nat_gateway_id, original_route,
                   polls, attempt, post_result, outcome, result, calls>>

\* ------------------------------------------------------- pull_model_task

\* run_async_task -> asyncio.run(pull_model_task(...)); the guard of line 169.
StartTask(r) ==
    /\ pc[r] = "queued"
    /\ pc' = [pc EXCEPT ![r] = IF ProvisioningEnabled THEN "check" ELSE "pull_post"]
    /\ UNCHANGED <<envVars, cloudVars, fleetVars, ack, nat_gateway_id,
                   original_route, polls, attempt, post_result, outcome, result,
                   hist, calls>>

AvailableGateways == {g \in DOMAIN gw : gw[g] = "available"}

\* What describe_nat_gateways(subnet-id, state=available) can make
\* check_nat_gateway_status do: raise (no try/except around the call; with
\* SUBNET_ID unset the filter value is None and the call always raises),
\* return None, or return the id of the first gateway listed.
CheckResults ==
    IF ~netCfg THEN {"raise"}
    ELSE (IF cloudFaults THEN {"raise"} ELSE {})
         \cup (IF AvailableGateways = {} THEN {None} ELSE AvailableGateways)

\* Mutant: the route is captured on the create path only.
AfterCheckSnapshotOnCreate(id) == IF GatewayFound(id) THEN "attach" ELSE "snapshot"

\* Line 172 follows line 171 whatever check_nat_gateway_status returned.
AfterCheck(id) == "snapshot"

\* nat_gateway_id = check_nat_gateway_status(ec2_client)   (line 171)
CheckNatGatewayStatus(r) ==
    /\ pc[r] = "check"
    /\ \E res \in CheckResults :
          IF res = "raise"
          THEN /\ pc' = [pc EXCEPT ![r] = "done"]
               /\ result' = [result EXCEPT ![r] = "crashed"]
               /\ UNCHANGED <<nat_gateway_id, hist>>
          ELSE /\ pc' = [pc EXCEPT ![r] = AfterCheck(res)]
               /\ nat_gateway_id' = [nat_gateway_id EXCEPT ![r] = res]
               /\ hist' = [hist EXCEPT ![r].discovered = res]
               /\ UNCHANGED result
    /\ calls' = [calls EXCEPT ![r].describe_gw = @ + 1]
    /\ UNCHANGED <<envVars, cloudVars, fleetVars, ack, original_route, polls,
                   attempt, post_result, outcome>>

\* original_route = get_current_default_route(ec2_client)   (line 172),
\* then the branch of lines 174-177.
GetCurrentDefaultRoute(r) ==
    /\ pc[r] = "snapshot"
    /\ \E readOk \in CallOutcomes :
          original_route' = [original_route EXCEPT ![r] = RouteSnapshot(readOk, route)]
    /\ hist' = [hist EXCEPT ![r].snapshotTaken = TRUE, ![r].route0 = route]
    /\ calls' = [calls EXCEPT ![r].describe_rt = @ + 1]
    /\ pc' = [pc EXCEPT ![r] =
                 IF GatewayFound(nat_gateway_id[r]) THEN "attach" ELSE "create"]
    /\ UNCHANGED <<envVars, cloudVars, fleetVars, ack, nat_gateway_id, polls,
                   attempt, post_result, outcome, result>>

\* nat_gateway_id = create_nat_gateway(ec2_client); if not nat_gateway_id: return
CreateNatGateway(r) ==
    /\ pc[r] = "create"
    /\ calls' = [calls EXCEPT ![r].create = @ + 1]
    /\ \E ok \in CallOutcomes :
          /\ gw' = IF ok THEN [gw EXCEPT ![NatId(r)] = "pending"] ELSE gw
          /\ nat_gateway_id' = [nat_gateway_id EXCEPT ![r] = IF ok THEN NatId(r) ELSE None]
          /\ hist' = [hist EXCEPT ![r].createOk = IF ok THEN "ok" ELSE "failed"]
    /\ pc' = [pc EXCEPT ![r] = AfterCreate(nat_gateway_id'[r])]
    /\ result' = [result EXCEPT ![r] =
                     IF pc'[r] = "done" THEN "create_failed" ELSE @]
    /\ UNCHANGED <<envVars, route, fleetVars, ack, original_route, polls, attempt,
                   post_result, outcome>>

\* One iteration of: for _ in range(40): if is_nat_gateway_available(...): break
\* ... else: return.  The gateway turns available when the cloud says so.
IsNatGatewayAvailable(r) ==
    /\ pc[r] = "wait"
    /\ polls[r] < AvailabilityPolls
    /\ calls' = [calls EXCEPT ![r].poll = @ + 1]
    /\ polls' = [polls EXCEPT ![r] = @ + 1]
    /\ \E res \in {"available", "pending"}
                 \cup (IF cloudFaults THEN {"exception"} ELSE {}) :
          IF res = "available"
          THEN /\ gw' = [gw EXCEPT ![nat_gateway_id[r]] = "available"]
               /\ hist' = [hist EXCEPT ![r].sawAvailable = TRUE]
               /\ pc' = [pc EXCEPT ![r] = "attach"]
          ELSE /\ UNCHANGED <<gw, hist>>
               /\ pc' = [pc EXCEPT ![r] = AfterPollMiss(polls[r] + 1)]
    /\ result' = [result EXCEPT ![r] = IF pc'[r] = "done" THEN "timeout" ELSE @]
    /\ UNCHANGED <<envVars, route, fleetVars, ack, nat_gateway_id, original_route,
                   attempt, post_result, outcome>>

\* replace_route succeeds only on a table that has the route it replaces.
ReplaceOutcomes == IF route = NoRoute THEN {FALSE} ELSE CallOutcomes

\* attach_nat_gateway_to_route_table(ec2_client, nat_gateway_id); its result
\* is not looked at (line 192).
AttachNatGatewayToRouteTable(r) ==
    /\ pc[r] = "attach"
    /\ calls' = [calls EXCEPT ![r].attach = @ + 1]
    /\ \E ok \in ReplaceOutcomes :
          /\ route' = IF ok THEN <<RouteOfTarget("NatGatewayId", nat_gateway_id[r])>>
                       ELSE route
          /\ hist' = [hist EXCEPT ![r].attach = IF ok THEN "ok" ELSE "failed",
                                   ![r].attachArg = nat_gateway_id[r]]
    /\ pc' = [pc EXCEPT ![r] = "pull_post"]
    /\ UNCHANGED <<envVars, gw, fleetVars, ack, nat_gateway_id, original_route,
                   polls, attempt, post_result, outcome, result>>

\* Mutant: a trigger that failed ends the run.
AfterPostAbortsOnFailure(res) == IF res = "2xx" THEN "pull_tags" ELSE "done"

\* Whatever the POST did (the status is only logged, an exception is caught
\* and logged, lines 200-203) the round goes on to the sleep and the query.
AfterPost(res) == "pull_tags"

\* resp = await client.post(f"{OLLAMA_HOST}/api/pull", ...)   (lines 198-203)
PullPost(r) ==
    /\ pc[r] = "pull_post"
    /\ attempt[r] < PullRounds
    /\ calls' = [calls EXCEPT ![r].post = @ + 1]
    /\ \E res \in PostResults :
          /\ post_result' = [post_result EXCEPT ![r] = res]
          /\ pc' = [pc EXCEPT ![r] = AfterPost(res)]
    /\ hist' = [hist EXCEPT ![r].pullEntered = TRUE]
    /\ UNCHANGED <<envVars, cloudVars, fleetVars, ack, nat_gateway_id,
                   original_route, polls, attempt, outcome, result>>

\* await asyncio.sleep(60); resp_tags = await client.get(.../api/tags); break
\* when the model is listed, else the next round; the for-else after the last
\* round (lines 205-216), then the guards of lines 219-220.
PullTags(r) ==
    /\ pc[r] = "pull_tags"
    /\ calls' = [calls EXCEPT ![r].tags = @ + 1]
    /\ attempt' = [attempt EXCEPT ![r] = @ + 1]
    /\ post_result' = [post_result EXCEPT ![r] = "none"]
    /\ \E res \in TagsResults :
          /\ hist' = [hist EXCEPT ![r].firstHit =
                         IF @ = 0 /\ res.status = 200 /\ res.listed
                         THEN attempt[r] + 1 ELSE @]
          /\ IF ModelInInventory(res)
             THEN /\ outcome' = [outcome EXCEPT ![r] = "Success"]
                  /\ pc' = [pc EXCEPT ![r] = AfterLoop(nat_gateway_id[r], "Success")]
             ELSE IF attempt[r] + 1 = PullRounds
             THEN /\ outcome' = [outcome EXCEPT ![r] = "NotAvailableAfterRetries"]
                  /\ pc' = [pc EXCEPT ![r] =
                               AfterLoop(nat_gateway_id[r], "NotAvailableAfterRetries")]
             ELSE /\ UNCHANGED outcome
                  /\ pc' = [pc EXCEPT ![r] = "pull_post"]
    /\ result' = [result EXCEPT ![r] =
                     IF pc'[r] = "done" THEN "completed" ELSE @]
    /\ UNCHANGED <<envVars, cloudVars, fleetVars, ack, nat_gateway_id,
                   original_route, polls>>

\* delete_nat_gateway(ec2_client, nat_gateway_id)   (line 221), then the guard
\* of line 224.
DeleteNatGateway(r) ==
    /\ pc[r] = "delete"
    /\ calls' = [calls EXCEPT ![r].delete = @ + 1]
    /\ \E ok \in CallOutcomes :
          /\ gw' = IF ok THEN [gw EXCEPT ![nat_gateway_id[r]] = "deleted"] ELSE gw
          /\ hist' = [hist EXCEPT ![r].deleted = nat_gateway_id[r],
                                   ![r].deleteOk = IF ok THEN "ok" ELSE "failed"]
    /\ pc' = [pc EXCEPT ![r] =
                 IF TeardownRestores(original_route[r]) THEN "restore" ELSE "done"]
    /\ result' = [result EXCEPT ![r] =
                     IF pc'[r] = "done" THEN "completed" ELSE @]
    /\ UNCHANGED <<envVars, route, fleetVars, ack, nat_gateway_id, original_route,
                   polls, attempt, post_result, outcome>>

\* replace_route(**kwargs) with no target among the kwargs is rejected.
RestoreOutcomes(kwargs) ==
    IF kwargs = <<>> THEN {FALSE} ELSE ReplaceOutcomes

\* restore_default_route(ec2_client, original_route)   (line 225)
RestoreDefaultRoute(r) ==
    /\ pc[r] = "restore"
    /\ calls' = [calls EXCEPT ![r].restore = @ + 1]
    /\ LET kwargs == RestoreKwargs(original_route[r]) IN
       \E ok \in RestoreOutcomes(kwargs) :
          /\ route' = IF ok THEN <<RouteOfTarget(kwargs[1], kwargs[2])>> ELSE route
          /\ hist' = [hist EXCEPT ![r].restoreArg = kwargs,
                                   ![r].restoreOk = IF ok THEN "ok" ELSE "failed"]
    /\ pc' = [pc EXCEPT ![r] = "done"]
    /\ result' = [result EXCEPT ![r] = "completed"]
    /\ UNCHANGED <<envVars, gw, fleetVars, ack, nat_gateway_id, original_route,
                   polls, attempt, post_result, outcome>>

\* ------------------------------------------------------------ fleet scaler

\* The task listings list_tasks can return: the service's tasks, each once,
\* in the platform's order.
Listings ==
    {l \in UNION {[1..n -> Tasks] : n \in 0..MaxTasks} :
        \A i, j \in DOMAIN l : i # j => l[i] # l[j]}

\* Mutant: the autoscaling-group name is left out of the check.
ScaleConfiguredWithoutAsg == fcfg.cluster /\ fcfg.service

\* if not all([cluster_name, service_name, autoscaling_group_name]): raise 400
ScaleConfigured == fcfg.cluster /\ fcfg.service /\ fcfg.asg

\* Mutant: a failed stop_task call ends the loop.
StopLoopEndsOnFailure(ok) == ok

\* The for loop of stop_ecs_tasks goes on to the next task whatever the
\* stop_task call did (try/except inside the loop body, lines 353-361).
StopLoopContinues(ok) == TRUE

\* if not all([cluster_name, service_name]): raise 400   (line 458)
StatusConfigured == fcfg.cluster /\ fcfg.service

\* Mutant: stop_ecs_tasks is called whatever update_service did.
AfterUpdateServiceAlwaysStops(op, ok) == IF op = "shutdown" THEN "list" ELSE "done"

\* After ecs.update_service: a raise leaves the try block (line 397);
\* shutdown goes on to stop_ecs_tasks (line 394), start returns (line 432).
AfterUpdateService(op, ok) ==
    IF ~ok THEN "done" ELSE IF op = "shutdown" THEN "list" ELSE "done"

\* Mutant: the first task of the listing is inspected.
FirstTask(tasks) == tasks[1]

\* latest_task_arn = tasks[-1]   (line 467)
LatestTask(tasks) == tasks[Len(tasks)]

\* shutdown_ecs_service / start_ecs_service up to the config check
\* (lines 369-373, 407-411).
ScaleEndpoint(op) ==
    /\ fpc = "idle"
    /\ fop' = op
    /\ IF ScaleConfigured
       THEN fpc' = "asg" /\ UNCHANGED fresult
       ELSE fpc' = "done" /\ fresult' = "error400"
    /\ UNCHANGED <<envVars, cloudVars, runVars, fcfg, listing, stopIdx, stopLog,
                   fcalls, fhist, taskStatus, fstatus>>

ShutdownEcsService == ScaleEndpoint("shutdown")

StartEcsService == ScaleEndpoint("start")

\* asg.update_auto_scaling_group(...); a raise goes to the except of the
\* endpoint: HTTPException 500.
UpdateAutoScalingGroup ==
    /\ fpc = "asg"
    /\ fcalls' = [fcalls EXCEPT !.asg = @ + 1]
    /\ \E ok \in BOOLEAN :
          /\ fhist' = [fhist EXCEPT !.asg = IF ok THEN "ok" ELSE "failed"]
          /\ IF ok
             THEN fpc' = "service" /\ UNCHANGED fresult
             ELSE fpc' = "done" /\ fresult' = "error500"
    /\ UNCHANGED <<envVars, cloudVars, runVars, fop, fcfg, listing, stopIdx,
                   stopLog, taskStatus, fstatus>>

\* ecs.update_service(...); then stop_ecs_tasks (shutdown) or return (start).
UpdateService ==
    /\ fpc = "service"
    /\ fcalls' = [fcalls EXCEPT !.service = @ + 1]
    /\ \E ok \in BOOLEAN :
          /\ fhist' = [fhist EXCEPT !.service = IF ok THEN "ok" ELSE "failed"]
          /\ fpc' = AfterUpdateService(fop, ok)
          /\ fresult' = IF ~ok THEN "error500"
                        ELSE IF fpc' = "done" THEN "success" ELSE fresult
    /\ UNCHANGED <<envVars, cloudVars, runVars, fop, fcfg, listing, stopIdx,
                   stopLog, taskStatus, fstatus>>

\* tasks = list_ecs_tasks(...): [] when list_tasks raised.  In stop_ecs_tasks:
\* if not tasks: return (lines 347-350); in selfhost_status: if not tasks:
\* return {"ready": False, "status": "NO_TASKS"} (lines 462-464).
ListEcsTasks ==
    /\ fpc = "list"
    /\ fcalls' = [fcalls EXCEPT !.list = @ + 1]
    /\ \E ok \in BOOLEAN, l \in Listings :
          /\ listing' = IF ok THEN l ELSE <<>>
          /\ IF fop = "status"
             THEN /\ UNCHANGED stopIdx
                  /\ IF listing' = <<>>
                     THEN /\ fpc' = "done"
                          /\ fresult' = "status"
                          /\ fstatus' = [NoStatus EXCEPT !.status = "NO_TASKS"]
                     ELSE /\ fpc' = "describe"
                          /\ UNCHANGED <<fresult, fstatus>>
             ELSE /\ UNCHANGED fstatus
                  /\ IF listing' = <<>>
                     THEN fpc' = "done" /\ fresult' = "success" /\ UNCHANGED stopIdx
                     ELSE fpc' = "stop" /\ stopIdx' = 1 /\ UNCHANGED fresult
    /\ UNCHANGED <<envVars, cloudVars, runVars, fop, fcfg, stopLog, fhist,
                   taskStatus>>

\* selfhost_status up to the config check (lines 456-459).
SelfhostStatus ==
    /\ fpc = "idle"
    /\ fop' = "status"
    /\ IF StatusConfigured
       THEN fpc' = "list" /\ UNCHANGED fresult
       ELSE fpc' = "done" /\ fresult' = "error400"
    /\ UNCHANGED <<envVars, cloudVars, runVars, fcfg, listing, stopIdx, stopLog,
                   fcalls, fhist, taskStatus, fstatus>>

\* status = get_ecs_task_status(cluster_name, latest_task_arn): the task's
\* lastStatus, None when describe_tasks raised; ready = status == "RUNNING"
\* (lines 467-470).
DescribeLatestTask ==
    /\ fpc = "describe"
    /\ fcalls' = [fcalls EXCEPT !.describe = @ + 1]
    /\ \E ok \in BOOLEAN :
          LET arn == LatestTask(listing)
              status == IF ok THEN taskStatus[arn] ELSE None
          IN  fstatus' = [ready |-> status = "RUNNING", status |-> status,
                          task_arn |-> arn]
    /\ fpc' = "done"
    /\ fresult' = "status"
    /\ UNCHANGED <<envVars, cloudVars, runVars, fop, fcfg, listing, stopIdx,
                   stopLog, fhist, taskStatus>>

\* One iteration of: for task in tasks: try: ecs.stop_task(...) except: log
StopTask ==
    /\ fpc = "stop"
    /\ fcalls' = [fcalls EXCEPT !.stop = @ + 1]
    /\ \E ok \in BOOLEAN :
          /\ stopLog' = Append(stopLog, [task |-> listing[stopIdx], ok |-> ok])
          /\ IF StopLoopContinues(ok) /\ stopIdx < Len(listing)
             THEN fpc' = "stop" /\ stopIdx' = stopIdx + 1 /\ UNCHANGED fresult
             ELSE fpc' = "done" /\ fresult' = "success" /\ UNCHANGED stopIdx
    /\ UNCHANGED <<envVars, cloudVars, runVars, fop, fcfg, listing, fhist,
                   taskStatus, fstatus>>

\* --------------------------------------------------------- specifications

Next ==
    \/ \E r \in Runs : PullModel(r)
    \/ \E r \in Runs : StartTask(r)
    \/ \E r \in Runs : CheckNatGatewayStatus(r)
    \/ \E r \in Runs : GetCurrentDefaultRoute(r)
    \/ \E r \in Runs : CreateNatGateway(r)
    \/ \E r \in Runs : IsNatGatewayAvailable(r)
    \/ \E r \in Runs : AttachNatGatewayToRouteTable(r)
    \/ \E r \in Runs : PullPost(r)
    \/ \E r \in Runs : PullTags(r)
    \/ \E r \in Runs : DeleteNatGateway(r)
    \/ \E r \in Runs : RestoreDefaultRoute(r)

Spec == Init /\ [][Next]_vars

\* A step of run r's background task (everything but the request itself).
RunStep(r) ==
    \/ StartTask(r)
    \/ CheckNatGatewayStatus(r)
    \/ GetCurrentDefaultRoute(r)
    \/ CreateNatGateway(r)
    \/ IsNatGatewayAvailable(r)
    \/ AttachNatGatewayToRouteTable(r)
    \/ PullPost(r)
    \/ PullTags(r)
    \/ DeleteNatGateway(r)
    \/ RestoreDefaultRoute(r)

\* Every boto3 / httpx call and every sleep of a started task returns, and the
\* thread pool runs every task that was added: a run that can step does.
SpecFair == Spec /\ \A r \in 1..MaxRuns : WF_vars(RunStep(r))

\* Concurrent pull_model requests whose runs start on the reuse path: the
\* configuration is complete, a gateway is available, the route table has a
\* default route and no boto3 call fails for a reason of the environment's.
InitConcurrent ==
    /\ InitRuns(MaxConcurrentRuns, FALSE)
    /\ FleetIdle
    /\ ollamaHost
    /\ netCfg
    /\ gw[NatId(0)] = "available"
    /\ route # NoRoute

SpecConcurrent == InitConcurrent /\ [][Next]_vars

\* One request to a fleet endpoint, no pull run.
InitFleet ==
    /\ InitRuns(0, TRUE)
    /\ ollamaHost /\ netCfg /\ route = NoRoute /\ gw[NatId(0)] = "absent"
    /\ fop = "none"
    /\ fpc = "idle"
    /\ fcfg \in [cluster : BOOLEAN, service : BOOLEAN, asg : BOOLEAN]
    /\ listing = <<>>
    /\ stopIdx = 0
    /\ stopLog = <<>>
    /\ fcalls = NoFleetCalls
    /\ fhist = [asg |-> "none", service |-> "none"]
    /\ fresult = "none"
    /\ taskStatus \in [Tasks -> TaskStatuses]
    /\ fstatus = NoStatus

NextFleet ==
    \/ ShutdownEcsService
    \/ StartEcsService
    \/ SelfhostStatus
    \/ DescribeLatestTask
    \/ UpdateAutoScalingGroup
    \/ UpdateService
    \/ ListEcsTasks
    \/ StopTask

SpecFleet == InitFleet /\ [][NextFleet]_vars

\* ------------------------------------------------------------------ claims

InPullLoop(r) == pc[r] \in {"pull_post", "pull_tags"}

Ec2Calls(r) ==
    calls[r].describe_gw + calls[r].describe_rt + calls[r].create + calls[r].poll
    + calls[r].attach + calls[r].delete + calls[r].restore

\* C1: a gateway the run found already available in its initial
\* describe-gateways lookup is never the object of a delete-gateway call of
\* that run.  (Stated as claimed; the code deletes it, line 220.)
C1_ReusedGatewayNeverDeleted ==
    \A r \in Runs : hist[r].discovered # None => calls[r].delete = 0

\* C2: in a run whose attach succeeded, teardown issues a replace-route whose
\* target is the default-route target of before the run's first mutation, and
\* once the run is done with a successful restore the route is the original
\* one, whatever the original route and whether or not the snapshot read
\* succeeded.  (Stated as claimed.)
C2_RouteRoundTrip ==
    \A r \in Runs :
        (pc[r] = "done" /\ hist[r].attach = "ok") =>
            /\ Len(hist[r].restoreArg) = 2
            /\ <<RouteOfTarget(hist[r].restoreArg[1], hist[r].restoreArg[2])>>
                  = hist[r].route0
            /\ (hist[r].restoreOk = "ok" => route = hist[r].route0)

\* C3: teardown runs iff provisioning ran, whatever the pull outcome: a run
\* that provisioned and entered the pull loop issues no teardown call while in
\* the loop and has executed the teardown step (the delete-gateway call) when
\* it is done, after a found model as after 10 exhausted rounds; a run that
\* executed no provisioning issues no delete-gateway and no restore call.
C3_TeardownIffProvisioning ==
    \A r \in Runs :
        /\ (calls[r].describe_gw > 0 /\ hist[r].pullEntered /\ InPullLoop(r))
              => (calls[r].delete = 0 /\ calls[r].restore = 0)
        /\ (calls[r].describe_gw > 0 /\ hist[r].pullEntered /\ pc[r] = "done")
              => (outcome[r] \in {"Success", "NotAvailableAfterRetries"}
                  /\ calls[r].delete = 1)
        /\ calls[r].describe_gw = 0
              => (calls[r].delete = 0 /\ calls[r].restore = 0)

C3_Witness ==
    \E r \in Runs :
        /\ pc[r] = "done"
        /\ calls[r].describe_gw = 1
        /\ outcome[r] = "NotAvailableAfterRetries"
        /\ calls[r].delete = 1

\* C4: a failed attach (replace-route) is fatal: the run issues no
\* pull-trigger and no inventory request.  (Stated as claimed; the code
\* ignores the result of the attach, line 192.)
C4_AttachFailureSkipsPull ==
    \A r \in Runs :
        hist[r].attach = "failed" => (calls[r].post = 0 /\ calls[r].tags = 0)

\* C5: a run whose describe-gateways lookup reported an available gateway
\* issues no create-gateway call, never polls for availability, and attaches
\* the gateway it discovered.
C5_IdempotentReuse ==
    \A r \in Runs :
        hist[r].discovered # None =>
            /\ calls[r].create = 0
            /\ calls[r].poll = 0
            /\ pc[r] \notin {"create", "wait"}
            /\ hist[r].attach # "none" => hist[r].attachArg = hist[r].discovered

C5_Witness ==
    \E r \in Runs :
        /\ hist[r].discovered = NatId(0)
        /\ hist[r].attach = "ok"
        /\ hist[r].attachArg = NatId(0)
        /\ pc[r] = "done"

\* C6: the pull loop runs at most 10 rounds and stops at the first round whose
\* inventory query answers 200 with the model listed: found in round k means
\* exactly k triggers and k queries and outcome Success; never found means
\* exactly 10 rounds and outcome NotAvailableAfterRetries, after which the
\* run goes on (it does not crash).
C6_PullLoopBounded ==
    \A r \in Runs :
        /\ calls[r].post <= 10 /\ calls[r].tags <= calls[r].post
        /\ (InPullLoop(r) \/ ~hist[r].pullEntered)
              => (outcome[r] = "none" /\ hist[r].firstHit = 0)
        /\ outcome[r] = "Success"
              => /\ hist[r].firstHit \in 1..10
                 /\ calls[r].post = hist[r].firstHit
                 /\ calls[r].tags = hist[r].firstHit
        /\ outcome[r] = "NotAvailableAfterRetries"
              => /\ hist[r].firstHit = 0
                 /\ calls[r].post = 10
                 /\ calls[r].tags = 10
                 /\ result[r] \in {"none", "completed"}
        /\ (hist[r].pullEntered /\ ~InPullLoop(r)) => outcome[r] # "none"

C6_Witness ==
    \E r \in Runs :
        /\ outcome[r] = "Success"
        /\ hist[r].firstHit = 3
        /\ calls[r].post = 3
        /\ calls[r].tags = 3
        /\ pc[r] = "done"

\* C7: when create-gateway fails, or none of the 40 availability polls
\* reports the gateway available, the run is done at once and has issued no
\* replace-route, delete-gateway, restore, pull-trigger or inventory call.
C7_ProvisioningFailureEndsRun ==
    \A r \in Runs :
        /\ (\/ hist[r].createOk = "failed"
            \/ (calls[r].poll = 40 /\ ~hist[r].sawAvailable))
              => /\ pc[r] = "done"
                 /\ result[r] \in {"create_failed", "timeout"}
                 /\ calls[r].attach = 0 /\ calls[r].delete = 0
                 /\ calls[r].restore = 0
                 /\ calls[r].post = 0 /\ calls[r].tags = 0
        /\ calls[r].poll <= 40
        /\ result[r] = "timeout" => (calls[r].poll = 40 /\ ~hist[r].sawAvailable)
        /\ result[r] = "create_failed" => hist[r].createOk = "failed"

C7_Witness ==
    \E r \in Runs :
        /\ result[r] = "timeout"
        /\ pc[r] = "done"
        /\ calls[r].poll = 40
        /\ gw[NatId(r)] = "pending"

\* C8: concurrent runs that all discovered the same available gateway are
\* safe: none issues a create-gateway call, and while one of them is in its
\* pull loop the gateway it uses is not deleted and the default route it
\* attached is not replaced by another target.  (Stated as claimed.)
C8_ConcurrentReuseSafe ==
    (\A q \in Runs : hist[q].discovered = NatId(0)) =>
        \A r \in Runs :
            /\ calls[r].create = 0
            /\ InPullLoop(r) =>
                  /\ gw[NatId(0)] = "available"
                  /\ hist[r].attach = "ok"
                        => route = <<RouteOfTarget("NatGatewayId", NatId(0))>>

\* C9 as claimed: with SUBNET_ID / ALLOCATION_ID / ROUTE_TABLE_ID unset the
\* run issues no EC2 call at all and is done only when the pull loop ended.
C9_SkippedWithoutNetCfg ==
    ~netCfg =>
        \A r \in Runs :
            /\ Ec2Calls(r) = 0
            /\ pc[r] = "done" => outcome[r] # "none"

\* C9 as amended: with OLLAMA_HOST unset or empty, egress provisioning is
\* skipped entirely: the run goes from the trigger straight to the pull loop,
\* issues no EC2 call before or after it, and is done when the loop ended.
C9_SkippedWithoutOllamaHost ==
    ~ollamaHost =>
        \A r \in Runs :
            /\ Ec2Calls(r) = 0
            /\ pc[r] \in {"idle", "queued", "pull_post", "pull_tags", "done"}
            /\ pc[r] = "done" => (outcome[r] # "none" /\ result[r] = "completed")

C9_Witness ==
    \E r \in Runs :
        /\ ~ollamaHost
        /\ netCfg
        /\ pc[r] = "done"
        /\ outcome[r] = "Success"
        /\ Ec2Calls(r) = 0

StoppedTasks == [i \in 1..Len(stopLog) |-> stopLog[i].task]

\* C10: scale(0) whose two updates succeeded issues one stop-task call per
\* listed task, in listing order, each task once; a failed stop-task call
\* neither ends the loop nor is retried, and the endpoint answers success.
C10_StopEveryListedTask ==
    (fop = "shutdown" /\ fhist.asg = "ok" /\ fhist.service = "ok") =>
        /\ fcalls.stop = Len(stopLog)
        /\ fpc = "stop" => StoppedTasks = SubSeq(listing, 1, stopIdx - 1)
        /\ fpc = "done" => (StoppedTasks = listing /\ fresult = "success")

C10_Witness ==
    /\ fop = "shutdown"
    /\ fpc = "done"
    /\ Len(listing) = 3
    /\ Len(stopLog) = 3
    /\ ~stopLog[1].ok
    /\ stopLog[3].ok
    /\ fresult = "success"

\* C11: scale(d) issues the autoscaling-group update first and the service
\* update second, each at most once; a failed autoscaling-group update means
\* no service update; a failed service update means an error answer, no
\* second autoscaling-group call and, for d = 0, no list-tasks or stop-task
\* call; scale(1) never issues a stop-task call.
C11_ScaleOrderNoRollback ==
    fop \in {"shutdown", "start"} =>
        /\ fcalls.asg <= 1 /\ fcalls.service <= 1
        /\ fcalls.service = 1 => fhist.asg = "ok"
        /\ fhist.asg = "failed"
              => (fcalls.service = 0 /\ fpc = "done" /\ fresult = "error500")
        /\ fhist.service = "failed"
              => /\ fpc = "done"
                 /\ fresult = "error500"
                 /\ fcalls.asg = 1
                 /\ fcalls.list = 0 /\ fcalls.stop = 0
        /\ fop = "start" => (fcalls.list = 0 /\ fcalls.stop = 0)

C11_Witness ==
    /\ fop = "shutdown"
    /\ fhist.asg = "ok"
    /\ fhist.service = "failed"
    /\ fpc = "done"
    /\ fresult = "error500"

\* C12: status() with both names configured answers without error; with an
\* empty listing it answers {ready: false, status: NO_TASKS}; otherwise it
\* describes only the last listed task, returns it as task_arn, and ready is
\* true iff the lastStatus it got for that task is RUNNING, whatever the
\* status of the other listed tasks.
C12_StatusOfLastTask ==
    (fop = "status" /\ fpc = "done" /\ fcfg.cluster /\ fcfg.service) =>
        /\ fresult = "status"
        /\ listing = <<>>
              => /\ fstatus = [ready |-> FALSE, status |-> "NO_TASKS", task_arn |-> None]
                 /\ fcalls.describe = 0
        /\ listing # <<>>
              => /\ fcalls.describe = 1
                 /\ fstatus.task_arn = listing[Len(listing)]
                 /\ fstatus.status \in {None, taskStatus[listing[Len(listing)]]}
                 /\ fstatus.ready <=> (fstatus.status = "RUNNING")

C12_Witness ==
    /\ fop = "status"
    /\ fpc = "done"
    /\ Len(listing) = 3
    /\ fstatus.ready
    /\ taskStatus[listing[1]] # "RUNNING"
    /\ taskStatus[listing[2]] # "RUNNING"
    /\ fstatus.task_arn = listing[3]

\* C13: with a required name missing (any of the three for scale(0) and
\* scale(1), cluster or service for status()) the endpoint answers an error
\* and has issued no cloud call.
C13_MissingConfigRejected ==
    /\ (fop \in {"shutdown", "start"} /\ ~(fcfg.cluster /\ fcfg.service /\ fcfg.asg))
          => (fpc = "done" /\ fresult = "error400" /\ fcalls = NoFleetCalls)
    /\ (fop = "status" /\ ~(fcfg.cluster /\ fcfg.service))
          => (fpc = "done" /\ fresult = "error400" /\ fcalls = NoFleetCalls)

C13_Witness ==
    /\ fop = "shutdown"
    /\ fcfg.cluster /\ fcfg.service /\ ~fcfg.asg
    /\ fresult = "error400"
    /\ fcalls = NoFleetCalls

\* C14: pull_model answers "pull_started" before any step of the run it
\* schedules: no call of the run precedes the answer, and the answer is the
\* same however the run ends later.
C14_AckBeforeRun ==
    \A r \in Runs :
        /\ pc[r] = "idle" => (ack[r] = "none" /\ TotalCalls(r) = 0)
        /\ pc[r] # "idle" => (ack[r] = "pull_started" /\ hist[r].callsAtAck = 0)

C14_Witness ==
    \E r \in Runs :
        /\ pc[r] = "done"
        /\ result[r] = "create_failed"
        /\ ack[r] = "pull_started"
        /\ hist[r].callsAtAck = 0
        /\ TotalCalls(r) > 0

C15_Bounded ==
    \A r \in Runs :
        calls[r].poll <= 40 /\ calls[r].post <= 10 /\ calls[r].tags <= 10

\* C15: provided every call returns, every started run reaches done, after at
\* most 40 availability polls and at most 10 pull rounds.
C15_EveryRunTerminates ==
    /\ []C15_Bounded
    /\ \A r \in 1..MaxRuns : (pc[r] = "queued") ~> (pc[r] = "done")

C15_Witness ==
    \E r \in Runs :
        /\ pc[r] = "done"
        /\ calls[r].poll = 40
        /\ calls[r].post = 10
        /\ hist[r].deleteOk = "failed"
        /\ hist[r].restoreOk = "failed"

\* C16: every run that reaches teardown attempts the route restore after the
\* delete step.  (Stated as claimed; the code skips the restore when the
\* snapshot is None, line 224.)
C16_RestoreAlwaysAttempted ==
    \A r \in Runs :
        (pc[r] = "done" /\ calls[r].delete > 0) => calls[r].restore = 1

\* C17: a pull round is one trigger, then one inventory query; a trigger that
\* failed or answered non-2xx is followed by the round's query; a query that
\* did not answer 200 with the model listed never ends the loop before round
\* 10; the first trigger precedes the first query, so every loop that ended
\* issued at least one trigger.
C17_RoundShape ==
    \A r \in Runs :
        /\ pc[r] = "pull_tags"
              => (calls[r].post = attempt[r] + 1 /\ calls[r].tags = attempt[r])
        /\ pc[r] # "pull_tags"
              => (calls[r].post = attempt[r] /\ calls[r].tags = attempt[r])
        /\ post_result[r] \in {"non2xx", "exception"} => pc[r] = "pull_tags"
        /\ (hist[r].pullEntered /\ ~InPullLoop(r) /\ hist[r].firstHit = 0)
              => calls[r].tags = 10
        /\ outcome[r] # "none" => calls[r].post >= 1

C17_Witness ==
    \E r \in Runs :
        /\ pc[r] = "pull_tags"
        /\ post_result[r] = "exception"
        /\ attempt[r] = 2
        /\ calls[r].post = 3

C18_Captured ==
    \A r \in Runs :
        /\ calls[r].describe_rt <= 1
        /\ (calls[r].create > 0 \/ calls[r].attach > 0 \/ calls[r].restore > 0)
              => (hist[r].snapshotTaken /\ calls[r].describe_rt = 1)
        /\ pc[r] \in {"create", "wait", "attach"} => hist[r].snapshotTaken

\* C18: on the reuse path and on the create path the describe-route-table
\* read precedes the run's first create-gateway and first replace-route call,
\* and once captured the snapshot is neither read again nor changed.
C18_SnapshotBeforeMutation ==
    /\ []C18_Captured
    /\ [][\A r \in Runs :
            hist[r].snapshotTaken =>
                /\ original_route'[r] = original_route[r]
                /\ calls'[r].describe_rt = calls[r].describe_rt]_vars

C18_Witness ==
    \E r \in Runs :
        /\ hist[r].discovered = NatId(0)
        /\ hist[r].snapshotTaken
        /\ original_route[r] # NoSnapshot
        /\ hist[r].attach = "ok"
        /\ hist[r].restoreOk = "ok"
        /\ pc[r] = "done"

PopulatedTargets(snapshot) ==
    {i \in 1..Len(TargetKeys) : snapshot[1][TargetKeys[i]] # None}

\* C19: a snapshot used for restoration has exactly one populated target
\* among the four keys, and the replace-route of restore_default_route names
\* exactly one target.  (Stated as claimed.)
C19_SnapshotHasOneTarget ==
    \A r \in Runs :
        calls[r].restore > 0 =>
            /\ Cardinality(PopulatedTargets(original_route[r])) = 1
            /\ Len(hist[r].restoreArg) = 2

AllCallsSucceeded(r) ==
    /\ result[r] = "completed"
    /\ original_route[r] # NoSnapshot
    /\ hist[r].attach = "ok"
    /\ hist[r].deleteOk = "ok"
    /\ hist[r].restoreOk = "ok"

\* C20: when a run is done and all its cloud calls succeeded, the default
\* route does not target a NAT gateway a delete-gateway call was issued on.
\* (Stated as claimed.)
C20_RouteNeverTargetsDeletedGateway ==
    \A r \in Runs :
        (pc[r] = "done" /\ AllCallsSucceeded(r)) =>
            \A q \in Runs :
                \/ hist[q].deleted = None
                \/ route # <<RouteOfTarget("NatGatewayId", hist[q].deleted)>>

\* C21: for two concurrent runs on one route table whose cloud calls all
\* succeed, once both are done the default route is the one the table held
\* before the first run started: every run's snapshot captured that route
\* and the route is back on it.  (Stated as claimed; the run that snapshots
\* first always captures the starting route, so the route equals the
\* starting one iff it equals every run's captured route.)
C21_ConcurrentRoundTrip ==
    (\A r \in Runs : pc[r] = "done" /\ AllCallsSucceeded(r)) =>
        \A r \in Runs : route = hist[r].route0

====
